---- MODULE Spec2Model ----
(***************************************************************************)
(* Model of the Adaptive Pattern Filter of ChaMo_v2                        *)
(* (src/src/filtering/adaptive_filters.py, base_filter.py), of            *)
(* ATFHandler.load_atf (src/src/io_utils/atf_handler.py) and of the        *)
(* recent-files list of Config (src/src/config.py).                        *)
(*                                                                         *)
(* Numbers are exact rationals <<n, d>> with d > 0 in lowest terms; the    *)
(* samples of the modelled signals are 0 and 1 and windows are at most     *)
(* three samples long, for which every Pearson correlation is rational     *)
(* (+-1 or +-1/2), so the arithmetic of the filter is modelled exactly.    *)
(***************************************************************************)
EXTENDS Integers, Sequences, FiniteSets, TLC

(***************************************************************************)
(* Bounds of the model                                                     *)
(***************************************************************************)
MaxSigLen == 3
MaxCalls == 1

(***************************************************************************)
(* Exact rational arithmetic                                               *)
(***************************************************************************)
Abs(x) == IF x < 0 THEN -x ELSE x

RECURSIVE GCD(_, _)
GCD(a, b) == IF b = 0 THEN a ELSE GCD(b, a % b)

Norm(n, d) ==
    LET g == GCD(Abs(n), Abs(d))
        s == IF d < 0 THEN -1 ELSE 1
    IN  <<(s * n) \div g, (s * d) \div g>>

R(n) == <<n, 1>>
RAdd(a, b) == Norm(a[1] * b[2] + b[1] * a[2], a[2] * b[2])
RSub(a, b) == Norm(a[1] * b[2] - b[1] * a[2], a[2] * b[2])
RMul(a, b) == Norm(a[1] * b[1], a[2] * b[2])
RDiv(a, b) == Norm(a[1] * b[2], a[2] * b[1])
RLess(a, b) == a[1] * b[2] < b[1] * a[2]
RLeq(a, b) == a[1] * b[2] <= b[1] * a[2]

\* integer square root, exact on perfect squares
ISqrt(n) == CHOOSE r \in 0..n : r * r <= n /\ (r + 1) * (r + 1) > n

\* int(x) of Python: truncation toward zero
PyInt(a) == IF a[1] >= 0 THEN a[1] \div a[2] ELSE -((-a[1]) \div a[2])

Zeros(n) == [i \in 1..n |-> R(0)]

(***************************************************************************)
(* Python sequence primitives                                              *)
(***************************************************************************)
\* normalisation of one bound of a slice a[lo:hi] on a sequence of length n
SliceIdx(i, n) ==
    LET j == IF i < 0 THEN i + n ELSE i
    IN  IF j < 0 THEN 0 ELSE IF j > n THEN n ELSE j

\* s[lo:hi], 0-based bounds as in Python
PySlice(s, lo, hi) ==
    LET a == SliceIdx(lo, Len(s))
        b == SliceIdx(hi, Len(s))
    IN  IF a < b THEN SubSeq(s, a + 1, b) ELSE <<>>

\* the 1-based positions that s[lo:hi] selects
SlicePos(n, lo, hi) ==
    LET a == SliceIdx(lo, n)
        b == SliceIdx(hi, n)
    IN  IF a < b THEN (a + 1)..b ELSE {}

\* range(0, stop, step), one element at a time: whether the element i is
\* produced, and the element after it
RangeHasNext(i, stop, step) == (step > 0 /\ i < stop) \/ (step < 0 /\ i > stop)

\* a range that hands out the same element again
RangeAdvanceStuck(i, step) == i

RangeAdvance(i, step) == i + step

\* list(range(0, stop, step)) for step /= 0
RECURSIVE RangeFrom(_, _, _)
RangeFrom(i, stop, step) ==
    IF (step > 0 /\ i < stop) \/ (step < 0 /\ i > stop)
    THEN <<i>> \o RangeFrom(i + step, stop, step)
    ELSE <<>>

(***************************************************************************)
(* Pearson correlation, np.corrcoef(x, y)[0, 1]                            *)
(***************************************************************************)
\* The correlation does not change when a sequence is multiplied by a positive
\* number, so it is computed on the integers x[i] * D, D the least common
\* denominator of x.
RECURSIVE CommonDen(_, _)
CommonDen(x, n) ==
    IF n = 0 THEN 1
    ELSE (CommonDen(x, n - 1) * x[n][2]) \div GCD(CommonDen(x, n - 1), x[n][2])

Scaled(x) ==
    LET D == CommonDen(x, Len(x))
    IN  [i \in 1..Len(x) |-> x[i][1] * (D \div x[i][2])]

\* the sum of x[i] * y[i] over the first n positions
RECURSIVE DotTo(_, _, _)
DotTo(x, y, n) == IF n = 0 THEN 0 ELSE DotTo(x, y, n - 1) + x[n] * y[n]

RECURSIVE SumTo(_, _)
SumTo(x, n) == IF n = 0 THEN 0 ELSE SumTo(x, n - 1) + x[n]

\* n*Sxy - Sx*Sy: the covariance of x and y times n*n
ScaledCov(x, y) ==
    Len(x) * DotTo(x, y, Len(x)) - SumTo(x, Len(x)) * SumTo(y, Len(y))

\* a correlation that takes a constant sequence as perfectly correlated
CorrConstantAsOne(x, y) ==
    LET X == Scaled(x)
        Y == Scaled(y)
        vx == ScaledCov(X, X)
        vy == ScaledCov(Y, Y)
    IN  IF vx = 0 \/ vy = 0
        THEN [nan |-> FALSE, val |-> R(1)]
        ELSE [nan |-> FALSE, val |-> Norm(ScaledCov(X, Y), ISqrt(vx * vy))]

\* nan for zero variance (and for fewer than two samples), else cov / sqrt(vx * vy)
Corr(x, y) ==
    LET X == Scaled(x)
        Y == Scaled(y)
        vx == ScaledCov(X, X)
        vy == ScaledCov(Y, Y)
    IN  IF vx = 0 \/ vy = 0
        THEN [nan |-> TRUE, val |-> R(0)]
        ELSE [nan |-> FALSE, val |-> Norm(ScaledCov(X, Y), ISqrt(vx * vy))]

(***************************************************************************)
(* The pattern store: a Python dict in insertion order, as a sequence of   *)
(* entries; the key "pattern_<k>" is modelled by the number k.             *)
(***************************************************************************)
Keys(store) == {store[i].id : i \in 1..Len(store)}

HasKey(store, k) == \E i \in 1..Len(store) : store[i].id = k

Lookup(store, k) == store[CHOOSE i \in 1..Len(store) : store[i].id = k]

\* del d[k]
DictDel(store, k) == SelectSeq(store, LAMBDA e : e.id /= k)

\* d[k] = v: an existing key keeps its position and gets the new value
DictSet(store, e) ==
    IF HasKey(store, e.id)
    THEN [i \in 1..Len(store) |-> IF store[i].id = e.id THEN e ELSE store[i]]
    ELSE Append(store, e)

\* min(d.items(), key=confidence)[0]: the first entry of minimum confidence
MinConfId(store) ==
    LET i == CHOOSE j \in 1..Len(store) :
                 /\ \A k \in 1..Len(store) : RLeq(store[j].confidence, store[k].confidence)
                 /\ \A k \in 1..(j - 1) : RLess(store[j].confidence, store[k].confidence)
    IN  store[i].id

\* a new pattern that starts at full confidence
NewPatternCertain(k, window) ==
    [id |-> k, signal |-> window, confidence |-> <<1, 1>>, count |-> 1, last_updated |-> 0]

\* the entry _learn_new_pattern stores under the new key
NewPattern(k, window) ==
    [id |-> k, signal |-> window, confidence |-> <<1, 2>>, count |-> 1, last_updated |-> 0]

\* a learn step that returns the window and stores nothing
LearnNewPatternDropped(store, max_patterns, window) ==
    IF Len(store) >= max_patterns /\ store = <<>>
    THEN [err |-> TRUE, store |-> store, key |-> -1, evicted |-> -1]
    ELSE [err |-> FALSE, store |-> store, key |-> Len(store), evicted |-> -1]

\* _learn_new_pattern: the store after learning, the key used and the key evicted
\* (-1: none); min() of an empty store raises
LearnNewPattern(store, max_patterns, window) ==
    IF Len(store) >= max_patterns /\ store = <<>>
    THEN [err |-> TRUE, store |-> store, key |-> -1, evicted |-> -1]
    ELSE LET full == Len(store) >= max_patterns
             ev == IF full THEN MinConfId(store) ELSE -1
             kept == IF full THEN DictDel(store, ev) ELSE store
             k == Len(kept)
         IN  [err |-> FALSE, store |-> DictSet(kept, NewPattern(k, window)),
              key |-> k, evicted |-> ev]

\* _find_matching_patterns: the correlation with every pattern of the window's
\* length; nan > threshold is false
Correlations(store, window) ==
    LET same == SelectSeq(store, LAMBDA e : Len(e.signal) = Len(window))
    IN  [i \in 1..Len(same) |->
            [id |-> same[i].id, correlation |-> Corr(window, same[i].signal),
             pattern |-> same[i]]]

\* a comparison that also accepts a correlation equal to the threshold
IsMatchInclusive(c, threshold) == ~c.nan /\ RLeq(threshold, c.val)

\* correlation > self.parameters['correlation_threshold']
IsMatch(c, threshold) == ~c.nan /\ RLess(threshold, c.val)

FindMatchingPatterns(store, window, threshold) ==
    LET hits == SelectSeq(Correlations(store, window),
                          LAMBDA m : IsMatch(m.correlation, threshold))
    IN  [i \in 1..Len(hits) |->
            [id |-> hits[i].id, correlation |-> hits[i].correlation.val,
             pattern |-> hits[i].pattern]]

\* a weight that leaves the confidence out
MatchWeightPlain(m) == m.correlation

\* weight = pattern['correlation'] * pattern['pattern']['confidence']
MatchWeight(m) == RMul(m.correlation, m.pattern.confidence)

RECURSIVE TotalWeight(_)
TotalWeight(matches) ==
    IF matches = <<>> THEN R(0)
    ELSE RAdd(MatchWeight(Head(matches)), TotalWeight(Tail(matches)))

RECURSIVE WeightedAt(_, _)
WeightedAt(matches, j) ==
    IF matches = <<>> THEN R(0)
    ELSE RAdd(RMul(MatchWeight(Head(matches)), Head(matches).pattern.signal[j]),
              WeightedAt(Tail(matches), j))

\* _apply_patterns
ApplyPatterns(window, matches) ==
    IF RLess(R(0), TotalWeight(matches))
    THEN [j \in 1..Len(window) |-> RDiv(WeightedAt(matches, j), TotalWeight(matches))]
    ELSE window

(***************************************************************************)
(* Signals and parameters                                                  *)
(***************************************************************************)
\* a signal argument: dtype "float64" or "int64" (numeric ndarray), "str" (an
\* ndarray of strings) or "list" (not an ndarray at all); data are its samples
ValidateSignal(sig) ==
    /\ sig.dtype /= "list"
    /\ Len(sig.data) /= 0
    /\ sig.dtype \in {"float64", "int64"}

DefaultParameters ==
    [window_size |-> 1000, overlap |-> <<1, 2>>, learning_rate |-> <<1, 10>>,
     correlation_threshold |-> <<7, 10>>, max_patterns |-> 50]

\* dict.update(kwargs)
DictUpdate(params, kwargs) ==
    [k \in DOMAIN params \cup DOMAIN kwargs |->
        IF k \in DOMAIN kwargs THEN kwargs[k] ELSE params[k]]

\* a step taken from the learning rate in the place of the overlap
StepFromLearningRate(params) ==
    PyInt(RMul(R(params["window_size"]), RSub(R(1), params["learning_rate"])))

\* step = int(window_size * (1 - overlap))
Step(params) == PyInt(RMul(R(params["window_size"]), RSub(R(1), params["overlap"])))

\* _extract_windows: range() raises on a zero step
WindowOffsets(n, window_size, step) == RangeFrom(0, n - window_size + 1, step)

ExtractWindows(data, params) ==
    LET step == Step(params)
        offs == WindowOffsets(Len(data), params["window_size"], step)
    IN  IF step = 0
        THEN [err |-> TRUE, windows |-> <<>>]
        ELSE [err |-> FALSE,
              windows |-> [i \in 1..Len(offs) |->
                              PySlice(data, offs[i], offs[i] + params["window_size"])]]

(***************************************************************************)
(* _process_signal                                                         *)
(***************************************************************************)
\* an accumulation that overwrites the samples of an earlier window
AccumulateOverwrite(st, fw, start, end) ==
    LET pos == SlicePos(Len(st.sum), start, end)
        a == SliceIdx(start, Len(st.sum))
    IN  [st EXCEPT !.sum = [j \in 1..Len(st.sum) |->
                               IF j \in pos THEN fw[j - a] ELSE st.sum[j]],
                   !.wts = [j \in 1..Len(st.wts) |->
                               IF j \in pos THEN st.wts[j] + 1 ELSE st.wts[j]]]

\* filtered_signal[start:end] += filtered_window; weights[start:end] += 1
Accumulate(st, fw, start, end) ==
    LET pos == SlicePos(Len(st.sum), start, end)
        a == SliceIdx(start, Len(st.sum))
    IN  [st EXCEPT !.sum = [j \in 1..Len(st.sum) |->
                               IF j \in pos THEN RAdd(st.sum[j], fw[j - a]) ELSE st.sum[j]],
                   !.wts = [j \in 1..Len(st.wts) |->
                               IF j \in pos THEN st.wts[j] + 1 ELSE st.wts[j]]]

\* what the loop did with one window: the window, the offset it was written
\* at, the store it was matched against, the matches found, whether it was
\* learned and its reconstruction
WindowRecord(window, start, store, matches, learned, filtered_window) ==
    [window |-> window, start |-> start, store |-> store, matches |-> matches,
     learned |-> learned, filtered_window |-> filtered_window]

\* the body of the loop for the window of 0-based index i; an integer window
\* cannot take the float blend of _apply_patterns in place
ProcessWindow(st, window, i, params, dtype) ==
    LET matches == FindMatchingPatterns(st.store, window, params["correlation_threshold"])
        start == i * st.step
        end == start + params["window_size"]
        l == LearnNewPattern(st.store, params["max_patterns"], window)
        applied == ApplyPatterns(window, matches)
    IN  IF matches /= <<>>
        THEN IF dtype = "int64"
             THEN [st EXCEPT !.err = TRUE]
             ELSE Accumulate(
                    [st EXCEPT !.windows = Append(st.windows,
                                   WindowRecord(window, start, st.store, matches, FALSE, applied))],
                    applied, start, end)
        ELSE IF l.err
             THEN [st EXCEPT !.err = TRUE]
             ELSE Accumulate(
                    [st EXCEPT !.store = l.store,
                               !.learned = Append(st.learned,
                                   [before |-> st.store, after |-> l.store,
                                    key |-> l.key, evicted |-> l.evicted,
                                    window |-> window]),
                               !.windows = Append(st.windows,
                                   WindowRecord(window, start, st.store, matches, TRUE, window))],
                    window, start, end)

RECURSIVE ProcessFrom(_, _, _, _, _)
ProcessFrom(st, windows, i, params, dtype) ==
    IF st.err \/ i >= Len(windows)
    THEN st
    ELSE ProcessFrom(ProcessWindow(st, windows[i + 1], i, params, dtype),
                     windows, i + 1, params, dtype)

\* weights[weights == 0] = 1; filtered_signal /= weights (raises on an integer array)
Normalize(st, dtype) ==
    IF st.err \/ dtype = "int64"
    THEN [st EXCEPT !.err = TRUE]
    ELSE [st EXCEPT !.sum = [j \in 1..Len(st.sum) |->
                                RDiv(st.sum[j], R(IF st.wts[j] = 0 THEN 1 ELSE st.wts[j]))]]

\* the locals of _process_signal before its loop
StartState(store, sig, params) ==
    [store |-> store, sum |-> Zeros(Len(sig.data)),
     wts |-> [j \in 1..Len(sig.data) |-> 0],
     step |-> Step(params), err |-> FALSE, learned |-> <<>>, windows |-> <<>>]

ProcessSignal(store, sig, windows, params) ==
    Normalize(ProcessFrom(StartState(store, sig, params), windows, 0, params, sig.dtype),
              sig.dtype)

(***************************************************************************)
(* update_pattern                                                          *)
(***************************************************************************)
\* numpy broadcasting of two one-dimensional arrays of lengths a and b: the
\* length of the result, or -1 when the shapes are incompatible
BroadcastLen(a, b) ==
    IF a = b THEN a
    ELSE IF a = 1 THEN b
    ELSE IF b = 1 THEN a
    ELSE -1

\* x[j] of an array broadcast to a longer one
BroadcastAt(x, j) == IF Len(x) = 1 THEN x[1] ELSE x[j]

\* (1 - lr) * pattern['signal'] + lr * new_window
Blend(signal, new_window, lr) ==
    [j \in 1..BroadcastLen(Len(signal), Len(new_window)) |->
        RAdd(RMul(RSub(R(1), lr), BroadcastAt(signal, j)),
             RMul(lr, BroadcastAt(new_window, j)))]

\* a confidence raised without the cap
RaisedConfidenceUncapped(c) == RAdd(c, <<1, 10>>)

\* min(1.0, confidence + 0.1)
RaisedConfidence(c) ==
    IF RLess(R(1), RAdd(c, <<1, 10>>)) THEN R(1) ELSE RAdd(c, <<1, 10>>)

\* the body of update_pattern for a key of the store
UpdatedEntry(e, lr, new_window) ==
    [e EXCEPT !.signal = Blend(e.signal, new_window, lr),
              !.confidence = RaisedConfidence(e.confidence),
              !.count = e.count + 1,
              !.last_updated = 0]

\* update_pattern: nothing happens for a key that is not in the store; the blend
\* raises, before anything is assigned, when the shapes cannot be broadcast
UpdatePatternStore(store, lr, pattern_id, new_window) ==
    IF ~HasKey(store, pattern_id)
    THEN [err |-> FALSE, store |-> store]
    ELSE IF BroadcastLen(Len(Lookup(store, pattern_id).signal), Len(new_window)) = -1
    THEN [err |-> TRUE, store |-> store]
    ELSE [err |-> FALSE,
          store |-> [i \in 1..Len(store) |->
                        IF store[i].id = pattern_id
                        THEN UpdatedEntry(store[i], lr, new_window)
                        ELSE store[i]]]

(***************************************************************************)
(* get_pattern_statistics                                                  *)
(***************************************************************************)
\* the sums of get_pattern_statistics over the first n entries
RECURSIVE ConfidenceSum(_, _)
ConfidenceSum(store, n) ==
    IF n = 0 THEN R(0) ELSE RAdd(ConfidenceSum(store, n - 1), store[n].confidence)

RECURSIVE CountSum(_, _)
CountSum(store, n) == IF n = 0 THEN 0 ELSE CountSum(store, n - 1) + store[n].count

\* statistics that count every pattern as one observation
GetPatternStatisticsFlat(store) ==
    IF store = <<>>
    THEN [total_patterns |-> 0, average_confidence |-> R(0), total_observations |-> 0]
    ELSE [total_patterns |-> Len(store),
          average_confidence |-> RDiv(ConfidenceSum(store, Len(store)), R(Len(store))),
          total_observations |-> Len(store)]

\* get_pattern_statistics
GetPatternStatistics(store) ==
    IF store = <<>>
    THEN [total_patterns |-> 0, average_confidence |-> R(0), total_observations |-> 0]
    ELSE [total_patterns |-> Len(store),
          average_confidence |-> RDiv(ConfidenceSum(store, Len(store)), R(Len(store))),
          total_observations |-> CountSum(store, Len(store))]

(***************************************************************************)
(* Persistence: the pattern file                                           *)
(***************************************************************************)
\* A file is absent, unreadable (open raises), invalid (not JSON) or json; the
\* data of a json file are its key/record pairs in file order, a record being
\* a function from field names to JSON values (numbers are rationals).
AbsentFile == [kind |-> "absent", data |-> <<>>]
InvalidFile == [kind |-> "invalid", data |-> <<>>]
UnreadableFile == [kind |-> "unreadable", data |-> <<>>]

RequiredFields == {"signal", "confidence", "count"}

\* one record of save_patterns
Serialize(e) ==
    [key |-> e.id,
     rec |-> [signal |-> e.signal, confidence |-> e.confidence,
              count |-> R(e.count), last_updated |-> R(e.last_updated)]]

SavePatterns(store) ==
    [kind |-> "json", data |-> [i \in 1..Len(store) |-> Serialize(store[i])]]

\* a load that reads the confidence as an integer
DeserializeTruncated(kv) ==
    [id |-> kv.key, signal |-> kv.rec["signal"],
     confidence |-> R(PyInt(kv.rec["confidence"])),
     count |-> PyInt(kv.rec["count"]),
     last_updated |-> IF "last_updated" \in DOMAIN kv.rec
                      THEN PyInt(kv.rec["last_updated"]) ELSE 0]

\* one record of load_patterns; last_updated defaults to 0
Deserialize(kv) ==
    [id |-> kv.key, signal |-> kv.rec["signal"], confidence |-> kv.rec["confidence"],
     count |-> PyInt(kv.rec["count"]),
     last_updated |-> IF "last_updated" \in DOMAIN kv.rec
                      THEN PyInt(kv.rec["last_updated"]) ELSE 0]

\* load_patterns on a store: nothing is read when the file does not exist
LoadPatterns(store, file) ==
    IF file.kind = "absent" THEN [err |-> FALSE, store |-> store]
    ELSE IF file.kind \in {"unreadable", "invalid"} THEN [err |-> TRUE, store |-> store]
    ELSE IF \E i \in 1..Len(file.data) : ~(RequiredFields \subseteq DOMAIN file.data[i].rec)
    THEN [err |-> TRUE, store |-> store]
    ELSE [err |-> FALSE, store |-> [i \in 1..Len(file.data) |-> Deserialize(file.data[i])]]

(***************************************************************************)
(* Inputs of the model                                                     *)
(***************************************************************************)
SampleVals == {R(0), R(1)}

SeqsUpTo(n) == UNION {[1..k -> SampleVals] : k \in 1..n}

\* valid float signals, among them two periods of a rising pair, an integer
\* signal and the three invalid kinds
Signals ==
    {[dtype |-> "float64", data |-> d] : d \in SeqsUpTo(MaxSigLen)}
    \cup {[dtype |-> "float64", data |-> <<R(0), R(1), R(0), R(1)>>]}
    \cup {[dtype |-> "int64", data |-> <<R(0), R(1), R(1)>>]}
    \cup {[dtype |-> "float64", data |-> <<>>],
          [dtype |-> "str", data |-> <<R(0), R(1)>>],
          [dtype |-> "list", data |-> <<R(0), R(1)>>]}

\* keyword arguments of filter
KwargsSet ==
    {<<>>,
     [window_size |-> 2, max_patterns |-> 2],
     [window_size |-> 2, overlap |-> R(0)],
     [window_size |-> 1],
     [max_patterns |-> 1],
     [window_size |-> -2, overlap |-> <<3, 2>>],
     \* an option the filter does not know
     [gain |-> 3]}

\* arguments of set_parameters
SetParametersSet ==
    {[window_size |-> 2],
     [max_patterns |-> 1],
     [gain |-> 3]}

\* arguments of update_pattern: keys "pattern_0", "pattern_1" and windows of
\* several lengths
UpdateKeys == {0, 1}

UpdateWindows == {<<R(1), R(1)>>, <<R(1)>>, <<R(1), R(0), R(1)>>}

Pat(k, sig, conf, cnt) ==
    [key |-> k, rec |-> [signal |-> sig, confidence |-> conf, count |-> R(cnt),
                         last_updated |-> R(0)]]

\* a file of patterns refined by update_pattern, distinct confidences
RefinedFile ==
    [kind |-> "json", data |-> <<Pat(0, <<R(0), R(1)>>, <<9, 10>>, 5),
                                 Pat(1, <<R(1), R(0)>>, <<3, 10>>, 1),
                                 Pat(2, <<R(1), R(1)>>, <<6, 10>>, 2)>>]

\* pattern files found at construction
InitFiles ==
    {AbsentFile, InvalidFile, UnreadableFile, RefinedFile,
     \* an older file, without last_updated
     [kind |-> "json", data |-> <<[key |-> 0,
                                   rec |-> [signal |-> <<R(1), R(0)>>,
                                            confidence |-> <<1, 2>>, count |-> R(1)]]>>],
     \* a record without its confidence
     [kind |-> "json", data |-> <<[key |-> 0,
                                   rec |-> [signal |-> <<R(1), R(0)>>, count |-> R(1)]]>>],
     \* a file written by another program: a confidence above 1
     [kind |-> "json", data |-> <<Pat(0, <<R(0), R(1)>>, <<3, 2>>, 1)>>],
     \* a pattern of one sample, a rising pattern of confidence 0 and two falling
     \* patterns of different confidences
     [kind |-> "json", data |-> <<Pat(0, <<R(1)>>, <<1, 2>>, 1),
                                  Pat(1, <<R(0), R(1)>>, R(0), 1),
                                  Pat(2, <<R(1), R(0)>>, <<1, 2>>, 1),
                                  Pat(3, <<R(3), R(0)>>, <<1, 4>>, 2)>>]}

(***************************************************************************)
(* ATFHandler: the text of a file as load_atf reads it.  A token is what    *)
(* split() returns: int() accepts it, float() accepts it, and its value.   *)
(* A line is whether it starts with 'ATF', whether it holds a double        *)
(* quote, what _parse_metadata finds in it, and its tokens.                 *)
(***************************************************************************)
TokWord == [int |-> FALSE, float |-> FALSE, val |-> R(0)]
TokInt(n) == [int |-> TRUE, float |-> TRUE, val |-> R(n)]
TokFloat(v) == [int |-> FALSE, float |-> TRUE, val |-> v]

Line(atf, quote, meta, tokens) ==
    [atf |-> atf, quote |-> quote, meta |-> meta, tokens |-> tokens]

\* "ATF 1.0", "Invalid content", "<h> <c>", "3", "3.0 2", '"Time" "Current"'
SigLine == Line(TRUE, FALSE, "none", <<TokWord, TokFloat(R(1))>>)
TextLine == Line(FALSE, FALSE, "none", <<TokWord, TokWord>>)
CountsLine(h, c) == Line(FALSE, FALSE, "none", <<TokInt(h), TokInt(c)>>)
ShortCountsLine == Line(FALSE, FALSE, "none", <<TokInt(3)>>)
FloatCountsLine == Line(FALSE, FALSE, "none", <<TokFloat(R(3)), TokInt(2)>>)
TitlesLine == Line(FALSE, TRUE, "none", <<TokWord, TokWord>>)
\* "ACQUIRE=SampleInterval=0.0001", "...=abc", "...=0", "ACQUIRE=Mode", "Comment=x"
AcquireLine(kind) == Line(FALSE, FALSE, kind, <<TokWord>>)
RowLine(vals) == Line(FALSE, FALSE, "none", [j \in 1..Len(vals) |-> TokFloat(vals[j])])
BlankLine == Line(FALSE, FALSE, "none", <<>>)

AcquireKinds == {"interval", "interval_word", "interval_zero", "acquire"}

\* the files given to load_atf: a first line, a second line, header lines and
\* data lines, and the files cut short; a missing file has no text
AtfFirstLines == {SigLine, TextLine}

AtfSecondLines ==
    {CountsLine(h, c) : h \in {0, 3, 4}, c \in {1, 2}}
    \cup {CountsLine(2, 0), TextLine, ShortCountsLine, FloatCountsLine, BlankLine}

AtfHeaderLines ==
    {<<>>, <<TitlesLine>>, <<AcquireLine("interval"), TitlesLine>>,
     <<AcquireLine("interval_word"), TitlesLine>>, <<AcquireLine("interval_zero")>>,
     <<AcquireLine("interval"), AcquireLine("acquire")>>, <<AcquireLine("comment")>>}

AtfDataLines ==
    {<<>>, <<RowLine(<<R(0), R(1)>>)>>,
     <<RowLine(<<R(0), R(1)>>), RowLine(<<R(1)>>), RowLine(<<R(1), R(0)>>)>>,
     <<RowLine(<<R(1)>>), TextLine>>, <<BlankLine>>}

AtfFiles ==
    {[exists |-> FALSE, lines |-> <<>>], [exists |-> TRUE, lines |-> <<>>],
     [exists |-> TRUE, lines |-> <<SigLine>>], [exists |-> TRUE, lines |-> <<TextLine>>]}
    \cup {[exists |-> TRUE, lines |-> <<a, b>> \o h \o d] :
             a \in AtfFirstLines, b \in AtfSecondLines, h \in AtfHeaderLines,
             d \in AtfDataLines}

\* a handler that is handed the exception instead of catching it
AtfRaiseUncaught(a, e) == [a EXCEPT !.pc = "raised", !.error = e]

\* except Exception: print the error, return False
AtfRaise(a, e) == [a EXCEPT !.pc = "done", !.result = FALSE, !.error = e]

\* [float(x) for x in line.strip().split()]: the values, or a ValueError
FloatsOf(line) ==
    IF \A j \in 1..Len(line.tokens) : line.tokens[j].float
    THEN [err |-> FALSE, values |-> [j \in 1..Len(line.tokens) |-> line.tokens[j].val]]
    ELSE [err |-> TRUE, values |-> <<>>]

\* self.metadata['ACQUIRE'] after the loop of _parse_metadata: the last
\* ACQUIRE line of the metadata lines, "none" without one
RECURSIVE LastAcquire(_)
LastAcquire(metadata_lines) ==
    IF metadata_lines = <<>> THEN "none"
    ELSE IF metadata_lines[Len(metadata_lines)].meta \in AcquireKinds
    THEN metadata_lines[Len(metadata_lines)].meta
    ELSE LastAcquire(SubSeq(metadata_lines, 1, Len(metadata_lines) - 1))

\* the value of SampleInterval=0.0001
SampleInterval == <<1, 10000>>

\* a handler before load_atf
IdleAtf ==
    [pc |-> "idle", file |-> [exists |-> FALSE, lines |-> <<>>], result |-> FALSE,
     error |-> "none", num_header_lines |-> 0, num_columns |-> 0, i |-> 0,
     headers |-> <<>>, metadata_lines |-> <<>>, sampling_rate |-> R(0),
     parsed_data |-> <<>>, data |-> <<>>, time_data |-> <<>>, current_data |-> <<>>]

(***************************************************************************)
(* Config: the 'io' section of the configuration, the file config.json and *)
(* the recent-files list                                                   *)
(***************************************************************************)
\* default_config['io']
DefaultIo == [recent_files |-> <<>>, max_recent |-> 10]

AbsentConfigFile == [kind |-> "absent"]

\* json.dump(self.config, f): a list of strings and an integer
DumpConfig(io) == [kind |-> "json", io |-> io]

\* load_config: {**default_config, **json.load(f)} takes the whole 'io' section
\* of the file; without a file the defaults
LoadConfig(file) == IF file.kind = "json" THEN file.io ELSE DefaultIo

\* list.remove(x): the first occurrence goes
RECURSIVE ListRemove(_, _)
ListRemove(s, x) ==
    IF s = <<>> THEN s
    ELSE IF Head(s) = x THEN Tail(s)
    ELSE <<Head(s)>> \o ListRemove(Tail(s), x)

ListContains(s, x) == \E i \in 1..Len(s) : s[i] = x

\* a list that keeps the old entry of a path added again
AddedToRecentKeepingOld(recent, max_recent, filepath) ==
    PySlice(<<filepath>> \o recent, 0, max_recent)

\* add_recent_file: remove, insert(0, filepath), recent[:max_recent]
AddedToRecent(recent, max_recent, filepath) ==
    LET removed == IF ListContains(recent, filepath)
                   THEN ListRemove(recent, filepath) ELSE recent
    IN  PySlice(<<filepath>> \o removed, 0, max_recent)

\* the paths added and the values Config.set gives io.max_recent
RecentPaths == {"a.atf", "b.atf", "c.atf"}

MaxRecentSettings == {0, 1, 2}

\* before a Config is constructed: no config.json yet
NoConfig ==
    [alive |-> FALSE, io |-> DefaultIo, file |-> AbsentConfigFile, op |-> "none",
     added |-> "none"]

(***************************************************************************)
(* State                                                                   *)
(***************************************************************************)
VARIABLES
    alive,            \* a filter instance exists (its constructor returned)
    signal_patterns,  \* self.signal_patterns
    parameters,       \* self._parameters
    patterns_file,    \* the file self.patterns_file
    writable,         \* the pattern file can be opened for writing
    assigned,         \* keys given to learned patterns since construction
    last,             \* the last operation: its arguments and its outcome
    calls,            \* operations made on instances so far
    peer,             \* a second instance on the same pattern file: its alive,
                      \* signal_patterns, parameters and calls
    run,              \* a filter call in progress: where it is and its locals
    atf,              \* an ATFHandler.load_atf call: its file, where it is and
                      \* what it has read
    config            \* a Config: its 'io' settings, its file and its last operation

vars == <<alive, signal_patterns, parameters, patterns_file, writable, assigned, last,
          calls, peer, run, atf, config>>

NoSignal == [dtype |-> "none", data |-> <<>>]

\* the record of an operation: its name and arguments, how it ended, the output
\* returned, the patterns learned on the way, what became of the write of
\* save_patterns ("ok", "failed", or "none": the call did not get to it) and what
\* _process_signal did with each window
Outcome(op, sig, kwargs, result, out, learned, save) ==
    [op |-> op, signal |-> sig, kwargs |-> kwargs, result |-> result, out |-> out,
     learned |-> learned, save |-> save, windows |-> <<>>]

\* the record of a filter call that reached _process_signal
Processed(outcome, st) == [outcome EXCEPT !.windows = st.windows]

\* no filter call in progress
IdleRun ==
    [pc |-> "idle", sig |-> NoSignal, kwargs |-> <<>>, i |-> 0, stop |-> 0, step |-> 0,
     windows |-> <<>>, st |-> StartState(<<>>, NoSignal, DefaultParameters), k |-> 0]


Init ==
    /\ alive = FALSE
    /\ signal_patterns = <<>>
    /\ parameters = DefaultParameters
    /\ patterns_file \in InitFiles
    /\ writable \in BOOLEAN
    \* the directory that cannot be written holds the refined patterns
    /\ (writable \/ patterns_file = RefinedFile)
    /\ assigned = {}
    /\ last = Outcome("none", NoSignal, <<>>, "ok", <<>>, <<>>, "none")
    /\ calls = 0
    /\ peer = [alive |-> FALSE, signal_patterns |-> <<>>,
               parameters |-> DefaultParameters, calls |-> 0]
    /\ run = IdleRun
    /\ atf = IdleAtf
    /\ config = NoConfig

\* __init__: default parameters, an empty store, then load_patterns; an error of
\* load_patterns leaves the caller without an instance
Construct ==
    LET l == LoadPatterns(<<>>, patterns_file)
    IN  /\ alive' = ~l.err
        /\ signal_patterns' = IF l.err THEN <<>> ELSE l.store
        /\ parameters' = DefaultParameters
        /\ assigned' = {}
        /\ last' = Outcome("init", NoSignal, <<>>, IF l.err THEN "error" ELSE "ok",
                           <<>>, <<>>, "none")
        /\ UNCHANGED <<patterns_file, writable, calls, peer, run, atf, config>>

\* a filter that merges the keyword arguments before it validates the signal
FilterInvalidLate(sig, kwargs) ==
    /\ ~ValidateSignal(sig)
    /\ parameters' = DictUpdate(parameters, kwargs)
    /\ last' = Outcome("filter", sig, kwargs, "error", <<>>, <<>>, "none")
    /\ UNCHANGED <<signal_patterns, patterns_file, assigned>>

\* filter(signal, **kwargs) up to the return or the first error: validate_signal
\* raises,
FilterInvalid(sig, kwargs) ==
    /\ ~ValidateSignal(sig)
    /\ last' = Outcome("filter", sig, kwargs, "error", <<>>, <<>>, "none")
    /\ UNCHANGED <<signal_patterns, parameters, patterns_file, assigned>>

\* or _extract_windows raises,
FilterNoWindows(sig, kwargs, w) ==
    /\ w.err
    /\ last' = Outcome("filter", sig, kwargs, "error", <<>>, <<>>, "none")
    /\ UNCHANGED <<signal_patterns, patterns_file, assigned>>

\* or _process_signal raises,
FilterFailed(sig, kwargs, st) ==
    /\ st.err
    /\ last' = Processed(Outcome("filter", sig, kwargs, "error", <<>>, st.learned, "none"), st)
    /\ UNCHANGED patterns_file

\* a filter that saves the store before it processes the signal
FilterSavedStale(sig, kwargs, st) ==
    /\ ~st.err
    /\ patterns_file' = IF writable THEN SavePatterns(signal_patterns) ELSE patterns_file
    /\ last' = Processed(
                  IF writable
                  THEN Outcome("filter", sig, kwargs, "ok", st.sum, st.learned, "ok")
                  ELSE Outcome("filter", sig, kwargs, "error", <<>>, st.learned, "failed"),
                  st)

\* or save_patterns writes the file and the output is returned, unless open()
\* raises because the file cannot be written
FilterSaved(sig, kwargs, st) ==
    /\ ~st.err
    /\ patterns_file' = IF writable THEN SavePatterns(st.store) ELSE patterns_file
    /\ last' = Processed(
                  IF writable
                  THEN Outcome("filter", sig, kwargs, "ok", st.sum, st.learned, "ok")
                  ELSE Outcome("filter", sig, kwargs, "error", <<>>, st.learned, "failed"),
                  st)

FilterProcessed(sig, kwargs, w) ==
    /\ ~w.err
    /\ \E st \in {ProcessSignal(signal_patterns, sig, w.windows, parameters')} :
          /\ signal_patterns' = st.store
          /\ assigned' = assigned \cup {st.learned[i].key : i \in 1..Len(st.learned)}
          /\ \/ FilterFailed(sig, kwargs, st)
             \/ FilterSaved(sig, kwargs, st)

FilterValid(sig, kwargs) ==
    /\ ValidateSignal(sig)
    /\ parameters' = DictUpdate(parameters, kwargs)
    /\ \E w \in {ExtractWindows(sig.data, parameters')} :
          \/ FilterNoWindows(sig, kwargs, w)
          \/ FilterProcessed(sig, kwargs, w)

Filter ==
    /\ alive
    /\ calls < MaxCalls
    /\ calls' = calls + 1
    /\ UNCHANGED <<alive, writable, peer, run, atf, config>>
    /\ \E sig \in Signals, kwargs \in KwargsSet :
          \/ FilterInvalid(sig, kwargs)
          \/ FilterValid(sig, kwargs)

\* set_parameters: only keys already present are set
SetParameters ==
    /\ alive
    /\ calls < MaxCalls
    /\ calls' = calls + 1
    /\ \E ps \in SetParametersSet :
          /\ parameters' = [k \in DOMAIN parameters |->
                               IF k \in DOMAIN ps THEN ps[k] ELSE parameters[k]]
          /\ last' = Outcome("set_parameters", NoSignal, ps, "ok", <<>>, <<>>, "none")
    /\ UNCHANGED <<alive, signal_patterns, patterns_file, writable, assigned, peer, run, atf, config>>

\* update_pattern(pattern_id, new_window)
UpdatePattern ==
    /\ alive
    /\ calls < MaxCalls
    /\ calls' = calls + 1
    /\ \E k \in UpdateKeys, w \in UpdateWindows :
          \E u \in {UpdatePatternStore(signal_patterns, parameters["learning_rate"], k, w)} :
             /\ signal_patterns' = u.store
             /\ last' = Outcome("update_pattern", [dtype |-> "float64", data |-> w],
                                [pattern_id |-> k], IF u.err THEN "error" ELSE "ok",
                                <<>>, <<>>, "none")
    /\ UNCHANGED <<alive, parameters, patterns_file, writable, assigned, peer, run, atf, config>>

\* get_pattern_statistics()
GetStatistics ==
    /\ alive
    /\ calls < MaxCalls
    /\ calls' = calls + 1
    /\ last' = [Outcome("get_pattern_statistics", NoSignal, <<>>, "ok", <<>>, <<>>, "none")
                   EXCEPT !.out = GetPatternStatistics(signal_patterns)]
    /\ UNCHANGED <<alive, signal_patterns, parameters, patterns_file, writable, assigned,
                   peer, run, atf, config>>

\* the dictionary object get_parameters hands out: self._parameters itself,
GetParametersShared == [object |-> "_parameters", value |-> parameters]

\* or, as the code has it, a new dictionary holding a copy of it
GetParametersResult == [object |-> "copy", value |-> parameters]

\* get_parameters()
GetParametersCall ==
    /\ alive
    /\ calls < MaxCalls
    /\ calls' = calls + 1
    /\ last' = [Outcome("get_parameters", NoSignal, <<>>, "ok", <<>>, <<>>, "none")
                   EXCEPT !.out = GetParametersResult]
    /\ UNCHANGED <<alive, signal_patterns, parameters, patterns_file, writable, assigned,
                   peer, run, atf, config>>

\* the caller assigns into the dictionary it was handed: the assignment reaches
\* the filter's parameters only when the dictionary is the filter's own object
ModifyReturned ==
    /\ last.op = "get_parameters"
    /\ \E ps \in SetParametersSet :
          /\ last' = [last EXCEPT !.op = "modify_returned", !.kwargs = ps,
                                  !.out.value = DictUpdate(@, ps)]
          /\ parameters' = IF last.out.object = "_parameters"
                           THEN DictUpdate(parameters, ps)
                           ELSE parameters
    /\ UNCHANGED <<alive, signal_patterns, patterns_file, writable, assigned, calls,
                   peer, run, atf, config>>

Next ==
    \/ Construct \/ Filter \/ SetParameters \/ UpdatePattern \/ GetStatistics
    \/ GetParametersCall \/ ModifyReturned

Spec == Init /\ [][Next]_vars

(***************************************************************************)
(* Two instances on one pattern file                                       *)
(***************************************************************************)
\* the signals the second instance filters
PeerSignals == {sig \in Signals : sig.dtype = "float64" /\ Len(sig.data) = 2}

\* __init__ of the second instance: it loads the file as it is at that moment
PeerConstruct ==
    LET l == LoadPatterns(<<>>, patterns_file)
    IN  /\ peer' = [alive |-> ~l.err,
                    signal_patterns |-> IF l.err THEN <<>> ELSE l.store,
                    parameters |-> DefaultParameters, calls |-> peer.calls]
        /\ UNCHANGED <<alive, signal_patterns, parameters, patterns_file, writable,
                       assigned, last, calls, run, atf, config>>

\* the state of the second instance and of the file after its filter(sig, **kwargs):
\* nothing is locked, the store it saves is the one it holds
PeerFiltered(sig, kwargs) ==
    LET p == DictUpdate(peer.parameters, kwargs)
        w == ExtractWindows(sig.data, p)
        st == ProcessSignal(peer.signal_patterns, sig, w.windows, p)
    IN  IF ~ValidateSignal(sig)
        THEN [peer |-> peer, file |-> patterns_file]
        ELSE IF w.err
        THEN [peer |-> [peer EXCEPT !.parameters = p], file |-> patterns_file]
        ELSE [peer |-> [peer EXCEPT !.parameters = p, !.signal_patterns = st.store],
              file |-> IF ~st.err /\ writable
                       THEN SavePatterns(st.store) ELSE patterns_file]

PeerFilter ==
    /\ peer.alive
    /\ peer.calls < MaxCalls
    /\ \E sig \in PeerSignals, kwargs \in KwargsSet :
          \E f \in {PeerFiltered(sig, kwargs)} :
             /\ peer' = [f.peer EXCEPT !.calls = peer.calls + 1]
             /\ patterns_file' = f.file
    /\ UNCHANGED <<alive, signal_patterns, parameters, writable, assigned, last, calls,
                   run, atf, config>>

NextShared == Construct \/ Filter \/ PeerConstruct \/ PeerFilter

SpecShared == Init /\ [][NextShared]_vars

(***************************************************************************)
(* One filter call, step by step: the range of _extract_windows and the    *)
(* loop of _process_signal advance one element at a time.                  *)
(***************************************************************************)
LoopFrame == UNCHANGED <<alive, writable, assigned, peer, atf, config>>

\* the signals of the stepped call: those of Filter and a flat start before a
\* rise
LoopSignals ==
    Signals \cup {[dtype |-> "float64", data |-> <<R(0), R(0), R(0), R(1)>>]}

\* filter(sig, **kwargs) is entered: validate_signal, then parameters.update
LoopCall ==
    /\ alive
    /\ calls < MaxCalls
    /\ run.pc = "idle"
    /\ calls' = calls + 1
    /\ \E sig \in LoopSignals, kwargs \in KwargsSet :
          IF ~ValidateSignal(sig)
          THEN /\ run' = [run EXCEPT !.pc = "raised", !.sig = sig, !.kwargs = kwargs]
               /\ last' = Outcome("filter", sig, kwargs, "error", <<>>, <<>>, "none")
               /\ UNCHANGED parameters
          ELSE /\ run' = [run EXCEPT !.pc = "range", !.sig = sig, !.kwargs = kwargs]
               /\ parameters' = DictUpdate(parameters, kwargs)
               /\ UNCHANGED last
    /\ UNCHANGED <<signal_patterns, patterns_file>>
    /\ LoopFrame

\* _extract_windows computes the step and builds the range, which raises on a
\* zero step
LoopRange ==
    /\ run.pc = "range"
    /\ IF Step(parameters) = 0
       THEN /\ run' = [run EXCEPT !.pc = "raised"]
            /\ last' = Outcome("filter", run.sig, run.kwargs, "error", <<>>, <<>>, "none")
       ELSE /\ run' = [run EXCEPT !.pc = "extract", !.i = 0,
                                  !.stop = Len(run.sig.data) - parameters["window_size"] + 1,
                                  !.step = Step(parameters)]
            /\ UNCHANGED last
    /\ UNCHANGED <<signal_patterns, parameters, patterns_file, calls>>
    /\ LoopFrame

\* the list comprehension takes the next element of the range, or ends and
\* _process_signal allocates its arrays
LoopExtract ==
    /\ run.pc = "extract"
    /\ run' = IF RangeHasNext(run.i, run.stop, run.step)
              THEN [run EXCEPT !.windows = Append(run.windows,
                                   PySlice(run.sig.data, run.i,
                                           run.i + parameters["window_size"])),
                               !.i = RangeAdvance(run.i, run.step)]
              ELSE [run EXCEPT !.pc = "process", !.k = 0,
                               !.st = StartState(signal_patterns, run.sig, parameters)]
    /\ UNCHANGED <<signal_patterns, parameters, patterns_file, last, calls>>
    /\ LoopFrame

\* the loop of _process_signal takes the next window; an error ends the call
\* with the patterns learned so far in the store
LoopProcess ==
    /\ run.pc = "process"
    /\ run.k < Len(run.windows)
    /\ \E st \in {ProcessWindow(run.st, run.windows[run.k + 1], run.k, parameters,
                                 run.sig.dtype)} :
          /\ signal_patterns' = st.store
          /\ IF st.err
             THEN /\ run' = [run EXCEPT !.pc = "raised", !.st = st]
                  /\ last' = Processed(Outcome("filter", run.sig, run.kwargs, "error",
                                               <<>>, st.learned, "none"), st)
             ELSE /\ run' = [run EXCEPT !.st = st, !.k = run.k + 1]
                  /\ UNCHANGED last
    /\ UNCHANGED <<parameters, patterns_file, calls>>
    /\ LoopFrame

\* after the last window: the normalisation, save_patterns and the return
LoopFinish ==
    /\ run.pc = "process"
    /\ run.k >= Len(run.windows)
    /\ \E st \in {Normalize(run.st, run.sig.dtype)} :
          /\ run' = [run EXCEPT !.st = st,
                                !.pc = IF st.err \/ ~writable THEN "raised" ELSE "returned"]
          /\ patterns_file' = IF ~st.err /\ writable
                              THEN SavePatterns(st.store) ELSE patterns_file
          /\ last' = Processed(
                        IF st.err
                        THEN Outcome("filter", run.sig, run.kwargs, "error", <<>>,
                                     st.learned, "none")
                        ELSE IF writable
                        THEN Outcome("filter", run.sig, run.kwargs, "ok", st.sum,
                                     st.learned, "ok")
                        ELSE Outcome("filter", run.sig, run.kwargs, "error", <<>>,
                                     st.learned, "failed"),
                        st)
    /\ UNCHANGED <<signal_patterns, parameters, calls>>
    /\ LoopFrame

\* the instance is constructed before the call is made
LoopConstruct == run.pc = "idle" /\ Construct

LoopStep == LoopRange \/ LoopExtract \/ LoopProcess \/ LoopFinish

NextLoop == LoopConstruct \/ LoopCall \/ LoopRange \/ LoopExtract \/ LoopProcess \/ LoopFinish

\* A call that was entered keeps running, nothing else holds the interpreter:
\* weak fairness of its steps.  For the loop of _process_signal the condition
\* WF_vars(LoopBody), which is []<>~ENABLED <<LoopBody>>_vars \/
\* []<><<LoopBody>>_vars, is written with LoopProcessing in the place of the
\* ENABLED formula: a step of the loop needs run.pc = "process", in that
\* state LoopProcess or LoopFinish can be taken (by run.k), and each of their
\* steps changes run (LoopStepChangesRun).
LoopRunning == run.pc \in {"range", "extract", "process"}

LoopProcessing == run.pc = "process"

LoopBody == LoopProcess \/ LoopFinish

LoopStepChangesRun == [][LoopStep => run' /= run]_vars

LoopFairness ==
    /\ WF_vars(LoopRange)
    /\ WF_vars(LoopExtract)
    /\ ([]<>~LoopProcessing \/ []<><<LoopBody>>_vars)

SpecLoop == Init /\ [][NextLoop]_vars /\ LoopFairness

(***************************************************************************)
(* ATFHandler.load_atf, statement by statement inside its try block         *)
(***************************************************************************)
AtfFrame ==
    UNCHANGED <<alive, signal_patterns, parameters, patterns_file, writable, assigned,
                last, calls, peer, run, config>>

\* ATFHandler(filepath).load_atf(): open() and readlines()
AtfOpen ==
    /\ atf.pc = "idle"
    /\ \E f \in AtfFiles :
          atf' = IF f.exists
                 THEN [atf EXCEPT !.pc = "signature", !.file = f]
                 ELSE AtfRaise([atf EXCEPT !.file = f], "FileNotFoundError")
    /\ AtfFrame

\* if not lines[0].startswith('ATF'): raise ValueError
AtfSignature ==
    /\ atf.pc = "signature"
    /\ atf' = IF atf.file.lines = <<>> THEN AtfRaise(atf, "IndexError")
              ELSE IF ~atf.file.lines[1].atf THEN AtfRaise(atf, "ValueError")
              ELSE [atf EXCEPT !.pc = "counts"]
    /\ AtfFrame

\* header_info = lines[1].strip().split(); the two int() conversions
AtfCounts ==
    /\ atf.pc = "counts"
    /\ atf' = IF Len(atf.file.lines) < 2 THEN AtfRaise(atf, "IndexError")
              ELSE LET header_info == atf.file.lines[2].tokens
                   IN  IF header_info = <<>> THEN AtfRaise(atf, "IndexError")
                       ELSE IF ~header_info[1].int THEN AtfRaise(atf, "ValueError")
                       ELSE IF Len(header_info) < 2 THEN AtfRaise(atf, "IndexError")
                       ELSE IF ~header_info[2].int THEN AtfRaise(atf, "ValueError")
                       ELSE [atf EXCEPT !.pc = "headers", !.i = 2,
                                        !.num_header_lines = PyInt(header_info[1].val),
                                        !.num_columns = PyInt(header_info[2].val)]
    /\ AtfFrame

\* for i in range(2, num_header_lines): a line with a double quote gives the
\* column headers, any other line is a metadata line
AtfHeaderLine ==
    /\ atf.pc = "headers"
    /\ atf' = IF atf.i >= atf.num_header_lines
              THEN [atf EXCEPT !.pc = "metadata"]
              ELSE IF atf.i + 1 > Len(atf.file.lines)
              THEN AtfRaise(atf, "IndexError")
              ELSE LET line == atf.file.lines[atf.i + 1]
                   IN  IF line.quote
                       THEN [atf EXCEPT !.headers = line.tokens, !.i = atf.i + 1]
                       ELSE [atf EXCEPT !.metadata_lines = Append(atf.metadata_lines, line),
                                        !.i = atf.i + 1]
    /\ AtfFrame

\* _parse_metadata: the sampling rate from ACQUIRE's SampleInterval
AtfMetadata ==
    /\ atf.pc = "metadata"
    /\ atf' = LET acquire == LastAcquire(atf.metadata_lines)
                  next == [atf EXCEPT !.pc = "rows",
                                      !.i = SliceIdx(atf.num_header_lines,
                                                     Len(atf.file.lines))]
              IN  IF acquire = "interval_word" THEN AtfRaise(atf, "ValueError")
                  ELSE IF acquire = "interval_zero" THEN AtfRaise(atf, "ZeroDivisionError")
                  ELSE IF acquire = "interval"
                  THEN [next EXCEPT !.sampling_rate = RDiv(R(1), SampleInterval)]
                  ELSE next
    /\ AtfFrame

\* for line in lines[num_header_lines:]: a line whose values are not all
\* numbers, or not num_columns of them, is skipped
AtfDataLine ==
    /\ atf.pc = "rows"
    /\ atf' = IF atf.i >= Len(atf.file.lines)
              THEN [atf EXCEPT !.pc = "extract", !.data = atf.parsed_data]
              ELSE LET f == FloatsOf(atf.file.lines[atf.i + 1])
                   IN  IF ~f.err /\ Len(f.values) = atf.num_columns
                       THEN [atf EXCEPT !.parsed_data = Append(atf.parsed_data, f.values),
                                        !.i = atf.i + 1]
                       ELSE [atf EXCEPT !.i = atf.i + 1]
    /\ AtfFrame

\* _extract_data_columns, then return True
AtfExtract ==
    /\ atf.pc = "extract"
    /\ atf' = IF atf.data = <<>>
              THEN [atf EXCEPT !.pc = "done", !.result = TRUE]
              ELSE IF atf.num_columns < 1
              THEN AtfRaise(atf, "IndexError")
              ELSE IF atf.num_columns < 2
              THEN AtfRaise([atf EXCEPT !.time_data =
                                [r \in 1..Len(atf.data) |-> atf.data[r][1]]],
                            "IndexError")
              ELSE [atf EXCEPT !.pc = "done", !.result = TRUE,
                               !.time_data = [r \in 1..Len(atf.data) |-> atf.data[r][1]],
                               !.current_data = [r \in 1..Len(atf.data) |-> atf.data[r][2]]]
    /\ AtfFrame

NextAtf ==
    AtfOpen \/ AtfSignature \/ AtfCounts \/ AtfHeaderLine \/ AtfMetadata \/ AtfDataLine
       \/ AtfExtract

SpecAtf == Init /\ [][NextAtf]_vars

\* get_parameters: a copy of the stored parameters
GetParameters == parameters

(***************************************************************************)
(* Properties                                                              *)
(***************************************************************************)
FilterCalled == last.op = "filter"

FilterReturned == last.op = "filter" /\ last.result = "ok"

\* a step of filter
FilterStep == last'.op = "filter" /\ calls' = calls + 1

SaveFailed == last.save = "failed"

\* window_size >= 1, 0 <= overlap < 1, max_patterns >= 1
ValidParameters(p) ==
    /\ p["window_size"] >= 1
    /\ RLeq(R(0), p["overlap"])
    /\ RLess(p["overlap"], R(1))
    /\ p["max_patterns"] >= 1

MinConfidence(store, k) ==
    /\ HasKey(store, k)
    /\ \A i \in 1..Len(store) : RLeq(Lookup(store, k).confidence, store[i].confidence)

\* C1: after a filter call that returned, under valid parameters, the store holds
\* at most max_patterns patterns
C1_PatternBound ==
    (FilterReturned /\ ValidParameters(parameters))
        => Len(signal_patterns) <= parameters["max_patterns"]

\* C2: a pattern learned into a store of exactly max_patterns patterns removes
\* exactly one earlier pattern, one of minimum confidence, and leaves every other
\* earlier pattern in the store unchanged, the store holding max_patterns again
C2_EvictsOnlyMinimum ==
    (FilterCalled /\ ValidParameters(parameters)) =>
        \A i \in 1..Len(last.learned) :
            LET ev == last.learned[i]
            IN  Len(ev.before) = parameters["max_patterns"] =>
                    /\ MinConfidence(ev.before, ev.evicted)
                    /\ Len(ev.after) = parameters["max_patterns"]
                    /\ \A k \in Keys(ev.before) \ {ev.evicted} :
                          /\ HasKey(ev.after, k)
                          /\ Lookup(ev.after, k) = Lookup(ev.before, k)

\* C3: the key given to a learned pattern is not a key of the store it is put in
\* and not a key given earlier since the instance was constructed
C3_FreshKeys ==
    [][FilterStep =>
          \A i \in 1..Len(last'.learned) :
              /\ last'.learned[i].key \notin Keys(last'.learned[i].before)
              /\ last'.learned[i].key \notin assigned
              /\ \A j \in 1..(i - 1) : last'.learned[j].key /= last'.learned[i].key]_vars

\* C4: for a valid signal and valid parameters (and a write of the pattern file
\* that does not fail) filter returns an output as long as the signal
C4_LengthPreserved ==
    (FilterCalled /\ ValidateSignal(last.signal) /\ ValidParameters(parameters)
        /\ ~SaveFailed)
        => (last.result = "ok" /\ Len(last.out) = Len(last.signal.data))

\* C5: for a float signal shorter than window_size (valid parameters, the pattern
\* file written) filter returns the signal unchanged
C5_ShortSignalUnchanged ==
    (FilterCalled /\ ValidateSignal(last.signal) /\ last.signal.dtype = "float64"
        /\ ValidParameters(parameters) /\ ~SaveFailed
        /\ Len(last.signal.data) < parameters["window_size"])
        => (last.result = "ok" /\ last.out = last.signal.data)

\* C6: a failed write of the pattern file does not fail the filter call: the
\* output is returned and the store keeps the patterns learned in the call
C6_SaveFailureTolerated ==
    (FilterCalled /\ SaveFailed)
        => /\ last.result = "ok"
           /\ Len(last.out) = Len(last.signal.data)
           /\ (last.learned /= <<>> =>
                  signal_patterns = last.learned[Len(last.learned)].after)

\* C7: construction succeeds whatever the pattern file is, with an empty store
\* when the file is absent or cannot be loaded
C7_ConstructNeverFails ==
    last.op = "init"
        => /\ alive
           /\ last.result = "ok"
           /\ (patterns_file.kind = "absent" \/ LoadPatterns(<<>>, patterns_file).err)
                  => signal_patterns = <<>>

\* C8: filter on an invalid signal raises and returns nothing, and leaves the
\* store, the parameters and the pattern file as they were
C8_InvalidSignalNoEffect ==
    [][(FilterStep /\ ~ValidateSignal(last'.signal)) =>
          /\ last'.result = "error"
          /\ last'.out = <<>>
          /\ signal_patterns' = signal_patterns
          /\ parameters' = parameters
          /\ patterns_file' = patterns_file]_vars

C8_Witness ==
    /\ FilterCalled
    /\ ~ValidateSignal(last.signal)
    /\ DOMAIN last.kwargs /= {}
    /\ last.result = "error"
    /\ signal_patterns /= <<>>
    /\ patterns_file.kind = "json"

\* C9: filter with window_size < 1 or overlap outside [0, 1) raises, returns no
\* output and learns nothing
C9_InvalidParametersRejected ==
    (FilterCalled /\ ValidateSignal(last.signal)
        /\ (parameters["window_size"] < 1
            \/ RLess(parameters["overlap"], R(0))
            \/ RLeq(R(1), parameters["overlap"])))
        => (last.result = "error" /\ last.learned = <<>>)

\* C10: after a filter call that returned, loading the pattern file gives the
\* store in memory: the same keys, templates, confidence, count and staleness
C10_FileHoldsStore ==
    FilterReturned =>
        LoadPatterns(<<>>, patterns_file) = [err |-> FALSE, store |-> signal_patterns]

C10_Witness ==
    /\ FilterReturned
    /\ last.learned /= <<>>
    /\ Len(signal_patterns) >= 2
    /\ \E i \in 1..Len(signal_patterns) : signal_patterns[i].count > 1

UpdateCalled == last.op = "update_pattern"

\* a step of update_pattern
UpdateStep == last'.op = "update_pattern" /\ calls' = calls + 1

C12_ConfidenceInRange ==
    \A i \in 1..Len(signal_patterns) :
        /\ RLeq(R(0), signal_patterns[i].confidence)
        /\ RLeq(signal_patterns[i].confidence, R(1))

\* the arguments of the update_pattern call recorded in a state's last
UpdateKey(l) == l.kwargs["pattern_id"]
UpdateWindow(l) == l.signal.data

\* the effect stated for update_pattern on the entry e: confidence + 0.1 capped
\* at 1, one more observation, staleness 0 and, for a window as long as the
\* template, template <- (1 - lr) * template + lr * new_window
StatedUpdate(e, f, lr, w) ==
    /\ f.id = e.id
    /\ f.confidence = (IF RLeq(RAdd(e.confidence, <<1, 10>>), R(1))
                       THEN RAdd(e.confidence, <<1, 10>>) ELSE R(1))
    /\ f.count = e.count + 1
    /\ f.last_updated = 0
    /\ Len(w) = Len(e.signal) =>
          f.signal = [j \in 1..Len(w) |->
                         RAdd(RMul(RSub(R(1), lr), e.signal[j]), RMul(lr, w[j]))]

\* the stated effect of an update_pattern(k, w) step on the whole store
UpdateAsStated(k, w) ==
    /\ last'.result = "ok"
    /\ Len(signal_patterns') = Len(signal_patterns)
    /\ \A i \in 1..Len(signal_patterns) :
          IF signal_patterns[i].id = k
          THEN StatedUpdate(signal_patterns[i], signal_patterns'[i],
                            parameters["learning_rate"], w)
          ELSE signal_patterns'[i] = signal_patterns[i]

\* C13 as stated: update_pattern on a key of the store, with any window, raises
\* the confidence by 0.1 capped at 1, adds 1 to the count, resets the staleness
\* and blends the template, leaving the other patterns unchanged; on a key not
\* in the store it changes nothing and raises no error
C13_UpdateAnyWindow ==
    [][UpdateStep => UpdateAsStated(UpdateKey(last'), UpdateWindow(last'))]_vars

\* C13: the same for a key not in the store and for a window as long as the
\* template of the key
C13_UpdateSameLength ==
    [][(UpdateStep
          /\ (HasKey(signal_patterns, UpdateKey(last')) =>
                 Len(UpdateWindow(last'))
                    = Len(Lookup(signal_patterns, UpdateKey(last')).signal)))
        => UpdateAsStated(UpdateKey(last'), UpdateWindow(last'))]_vars

\* update_pattern has refined a pattern with a window of its template's length
C13_Witness ==
    /\ UpdateCalled
    /\ last.result = "ok"
    /\ HasKey(signal_patterns, UpdateKey(last))
    /\ Len(Lookup(signal_patterns, UpdateKey(last)).signal) = Len(UpdateWindow(last))
    /\ Len(UpdateWindow(last)) = 2
    /\ Lookup(signal_patterns, UpdateKey(last)).count > 1
    /\ Len(signal_patterns) > 1

\* C14: a filter call leaves every pattern whose key is in the store before and
\* after the call as it was: the same template, confidence and count
C14_FilterKeepsPatterns ==
    [][FilterStep =>
          \A k \in Keys(signal_patterns) \cap Keys(signal_patterns') :
              /\ Lookup(signal_patterns', k).signal = Lookup(signal_patterns, k).signal
              /\ Lookup(signal_patterns', k).confidence
                    = Lookup(signal_patterns, k).confidence
              /\ Lookup(signal_patterns', k).count = Lookup(signal_patterns, k).count]_vars

RecognizedOptions ==
    {"window_size", "overlap", "learning_rate", "correlation_threshold", "max_patterns"}

\* C15: whatever options set_parameters and filter were given, get_parameters
\* holds exactly the five recognized options
C15_OnlyRecognizedOptions ==
    alive => DOMAIN GetParameters = RecognizedOptions

\* the sum of the first n samples of x, and of their squares
RECURSIVE RSumTo(_, _)
RSumTo(x, n) == IF n = 0 THEN R(0) ELSE RAdd(RSumTo(x, n - 1), x[n])

RECURSIVE RSumSqTo(_, _)
RSumSqTo(x, n) == IF n = 0 THEN R(0) ELSE RAdd(RSumSqTo(x, n - 1), RMul(x[n], x[n]))

\* np.std(x - clean) squared: the variance of the difference
Deviation2(x, clean) ==
    LET d == [j \in 1..Len(x) |-> RSub(x[j], clean[j])]
        n == R(Len(x))
    IN  RDiv(RSub(RMul(n, RSumSqTo(d, Len(d))), RMul(RSumTo(d, Len(d)), RSumTo(d, Len(d)))),
             RMul(n, n))

\* the clean signals of n samples: a base pattern of one sample, tiled
TiledSignals(n) == {[j \in 1..n |-> v] : v \in SampleVals}

\* the first call on a filter constructed without patterns, for a signal of
\* exactly window_size samples (the test: 1000 samples, window_size 1000)
FreshSingleWindow ==
    /\ FilterReturned
    /\ Len(last.signal.data) = parameters["window_size"]
    /\ last.learned /= <<>>
    /\ last.learned[1].before = <<>>

\* C16: in that call the output is closer to the clean signal than the input is,
\* so it is not the input
C16_NoiseReduced ==
    FreshSingleWindow =>
        /\ last.out /= last.signal.data
        /\ \A clean \in TiledSignals(Len(last.out)) :
              RLess(Deviation2(last.out, clean), Deviation2(last.signal.data, clean))

\* C17: after a filter call on a valid signal of at least window_size samples,
\* under valid parameters, get_pattern_statistics reports at least one pattern
\* and a positive average confidence
C17_StoreNotEmpty ==
    (FilterCalled /\ ValidateSignal(last.signal) /\ ValidParameters(parameters)
        /\ Len(last.signal.data) >= parameters["window_size"])
        => /\ GetPatternStatistics(signal_patterns).total_patterns >= 1
           /\ RLess(R(0), GetPatternStatistics(signal_patterns).average_confidence)

\* a step of filter of the second instance
PeerFilterStep == peer'.calls = peer.calls + 1

\* the patterns that a pattern file holds, as load_patterns reads them
FilePatterns(file) ==
    {Deserialize(file.data[i]) :
        i \in {j \in 1..Len(file.data) : RequiredFields \subseteq DOMAIN file.data[j].rec}}

\* the patterns that the second instance holds in its store
HeldByPeer == {peer.signal_patterns[i] : i \in 1..Len(peer.signal_patterns)}

\* C18: the file is used exclusively from load to save, so a filter call of the
\* second instance loses no pattern of the file that this instance does not hold
\* (one that the first instance learned and saved in between)
C18_NoLostPattern ==
    [][PeerFilterStep =>
          (FilePatterns(patterns_file) \ HeldByPeer) \subseteq FilePatterns(patterns_file')]_vars

\* C19: load_patterns reads every pattern file that is valid JSON, whatever
\* fields its records have: a field that is absent takes a default value
C19_AbsentFieldsDefault ==
    (last.op = "init" /\ patterns_file.kind = "json")
        => /\ last.result = "ok"
           /\ alive
           /\ Keys(signal_patterns) = {patterns_file.data[i].key : i \in 1..Len(patterns_file.data)}

\* the same key-to-pattern mapping with its entries inserted in the opposite order
Reversed(store) == [i \in 1..Len(store) |-> store[Len(store) + 1 - i]]

\* a store as a mapping: its entries without their order
AsMapping(store) == {store[i] : i \in 1..Len(store)}

\* filter(sig) on a filter holding the store, under the stored parameters: how
\* _process_signal ends, its output and the store it leaves
FilterFrom(store, sig) ==
    LET w == ExtractWindows(sig.data, parameters)
        st == ProcessSignal(store, sig, w.windows, parameters)
    IN  IF w.err
        THEN [err |-> TRUE, out |-> <<>>, store |-> AsMapping(store)]
        ELSE [err |-> st.err, out |-> IF st.err THEN <<>> ELSE st.sum,
              store |-> AsMapping(st.store)]

\* C20: two filters whose stores are equal as mappings, with equal parameters,
\* return equal outputs for the same signal and end with equal stores
C20_InsertionOrderIrrelevant ==
    alive => \A sig \in PeerSignals :
                FilterFrom(signal_patterns, sig) = FilterFrom(Reversed(signal_patterns), sig)

StatisticsCalled == last.op = "get_pattern_statistics"

\* the sum of a sequence of rationals, taken from the last one down
RECURSIVE SumOver(_)
SumOver(q) ==
    IF q = <<>> THEN R(0)
    ELSE RAdd(q[Len(q)], SumOver(SubSeq(q, 1, Len(q) - 1)))

Confidences(store) == [i \in 1..Len(store) |-> store[i].confidence]
Counts(store) == [i \in 1..Len(store) |-> R(store[i].count)]

\* C21: get_pattern_statistics returns the number of patterns, the sum of their
\* counts and the mean of their confidences, and 0, 0.0 and 0 for an empty store
C21_Statistics ==
    StatisticsCalled =>
        /\ last.out.total_patterns = Cardinality(Keys(signal_patterns))
        /\ R(last.out.total_observations) = SumOver(Counts(signal_patterns))
        /\ RMul(last.out.average_confidence, R(Len(signal_patterns)))
              = SumOver(Confidences(signal_patterns))
        /\ (signal_patterns = <<>> =>
              last.out = [total_patterns |-> 0, average_confidence |-> R(0),
                          total_observations |-> 0])

\* the statistics of a store of several patterns with different confidences and
\* more observations than patterns
C21_Witness ==
    /\ StatisticsCalled
    /\ last.out.total_patterns = 3
    /\ last.out.total_observations > 3
    /\ last.out.average_confidence = <<3, 5>>

\* the keys that two stores share
KeptKeys(before, after) == Keys(before) \cap Keys(after)

\* C22: the template under a key keeps its length for as long as the key is in
\* the store: no step of update_pattern or of filter changes the template
\* length of a pattern that is in the store before and after it
C22_TemplateLengthConstant ==
    [][(UpdateStep \/ FilterStep) =>
          \A k \in KeptKeys(signal_patterns, signal_patterns') :
             Len(Lookup(signal_patterns', k).signal) = Len(Lookup(signal_patterns, k).signal)]_vars

\* the step as stated: floor(window_size * (1 - overlap)), at least 1
StatedStep(p) ==
    LET x == RMul(R(p["window_size"]), RSub(R(1), p["overlap"]))
        floor == x[1] \div x[2]
    IN  IF floor < 1 THEN 1 ELSE floor

\* C25: for window_size >= 1 and 0 <= overlap < 1 the window step is
\* floor(window_size * (1 - overlap)) clamped to at least 1: it is >= 1 and
\* window extraction succeeds
C25_StepClamped ==
    (FilterCalled /\ ValidateSignal(last.signal) /\ ValidParameters(parameters))
        => /\ Step(parameters) = StatedStep(parameters)
           /\ Step(parameters) >= 1
           /\ ~ExtractWindows(last.signal.data, parameters).err

\* the windows as stated: one per offset 0, step, 2 * step, ... with
\* offset + window_size <= n
StatedWindowCount(n, window_size, step) ==
    IF n < window_size THEN 0 ELSE ((n - window_size) \div step) + 1

StatedWindows(data, p) ==
    [i \in 1..StatedWindowCount(Len(data), p["window_size"], StatedStep(p)) |->
        SubSeq(data, (i - 1) * StatedStep(p) + 1, (i - 1) * StatedStep(p) + p["window_size"])]

\* C26: window extraction returns, in ascending order, exactly the windows at the
\* offsets 0, step, 2 * step, ... with offset + window_size <= len(signal), each
\* of length window_size and none for a signal shorter than window_size, and
\* the i-th window is written back at offset i * step, inside the output
C26_WindowOffsets ==
    (FilterCalled /\ ValidateSignal(last.signal) /\ ValidParameters(parameters))
        => LET ew == ExtractWindows(last.signal.data, parameters)
               n == Len(last.signal.data)
           IN  /\ ~ew.err
               /\ ew.windows = StatedWindows(last.signal.data, parameters)
               /\ \A i \in 1..Len(ew.windows) :
                     Len(ew.windows[i]) = parameters["window_size"]
               /\ (n < parameters["window_size"] => ew.windows = <<>>)
               /\ \A i \in 1..Len(last.windows) :
                     /\ last.windows[i].window = ew.windows[i]
                     /\ last.windows[i].start = (i - 1) * StatedStep(parameters)
                     /\ last.windows[i].start + parameters["window_size"] <= n

\* the windows of the last call that matched no pattern, in order
UnmatchedRecords == SelectSeq(last.windows, LAMBDA r : r.matches = <<>>)

\* C27: a window that matches no stored pattern is learned: a new pattern with
\* the raw window as template, confidence 0.5, observation_count 1 and
\* staleness 0 is in the store when the learn step ends, and the raw window is
\* that window's reconstruction
C27_UnmatchedWindowLearned ==
    FilterCalled =>
        /\ Len(last.learned) = Len(UnmatchedRecords)
        /\ \A i \in 1..Len(UnmatchedRecords) :
              LET r == UnmatchedRecords[i]
                  l == last.learned[i]
              IN  /\ r.learned
                  /\ r.filtered_window = r.window
                  /\ l.window = r.window
                  /\ HasKey(l.after, l.key)
                  /\ Lookup(l.after, l.key).signal = r.window
                  /\ Lookup(l.after, l.key).confidence = <<1, 2>>
                  /\ Lookup(l.after, l.key).count = 1
                  /\ Lookup(l.after, l.key).last_updated = 0

\* a returned call that matched one window and learned another after an eviction
C27_Witness ==
    /\ FilterReturned
    /\ \E i \in 1..Len(last.learned) : last.learned[i].evicted /= -1
    /\ \E i \in 1..Len(last.windows) : last.windows[i].matches /= <<>>

\* Pearson's coefficient stated without a square root: the summed products of
\* deviations from the means and the two summed squared deviations
Mean(x) == RDiv(RSumTo(x, Len(x)), R(Len(x)))

RECURSIVE CoDeviation(_, _, _, _, _)
CoDeviation(x, mx, y, my, n) ==
    IF n = 0 THEN R(0)
    ELSE RAdd(CoDeviation(x, mx, y, my, n - 1), RMul(RSub(x[n], mx), RSub(y[n], my)))

Deviations(x, y) ==
    LET mx == Mean(x)
        my == Mean(y)
    IN  [cov |-> CoDeviation(x, mx, y, my, Len(x)),
         vx |-> CoDeviation(x, mx, x, mx, Len(x)),
         vy |-> CoDeviation(y, my, y, my, Len(y))]

\* the correlation with the deviations d is defined and strictly greater than th
CorrelationAbove(d, th) ==
    LET cov2 == RMul(d.cov, d.cov)
        bound2 == RMul(RMul(th, th), RMul(d.vx, d.vy))
    IN  /\ RLess(R(0), d.vx)
        /\ RLess(R(0), d.vy)
        /\ IF RLeq(R(0), th)
           THEN RLess(R(0), d.cov) /\ RLess(bound2, cov2)
           ELSE RLeq(R(0), d.cov) \/ RLess(cov2, bound2)

\* the correlation of x and y is defined and equal to 1
CorrelationIsOne(x, y) ==
    /\ Len(x) = Len(y)
    /\ x /= <<>>
    /\ \E d \in {Deviations(x, y)} :
          /\ RLess(R(0), d.cov)
          /\ RMul(d.cov, d.cov) = RMul(d.vx, d.vy)

\* the patterns of a store as long as the window, each with its deviations
SameLength(store, window) ==
    {[id |-> store[j].id, d |-> Deviations(window, store[j].signal)] :
        j \in {k \in 1..Len(store) : Len(store[k].signal) = Len(window)}}

StatedMatchIds(candidates, th) ==
    {c.id : c \in {q \in candidates : CorrelationAbove(q.d, th)}}

MatchIds(matches) == {matches[i].id : i \in 1..Len(matches)}

\* thresholds that a correlation of the model equals
ThresholdProbes == {R(1), R(-1)}

\* C28: a stored pattern is a match for a window exactly when its template is
\* as long as the window and its correlation with the window is strictly
\* greater than correlation_threshold: an equal correlation is no match and a
\* pattern of another length is never matched
C28_MatchIffAboveThreshold ==
    FilterCalled =>
        \A i \in 1..Len(last.windows) :
           LET r == last.windows[i]
           IN  \E candidates \in {SameLength(r.store, r.window)} :
                  /\ MatchIds(r.matches)
                        = StatedMatchIds(candidates, parameters["correlation_threshold"])
                  /\ \A th \in ThresholdProbes :
                        MatchIds(FindMatchingPatterns(r.store, r.window, th))
                           = StatedMatchIds(candidates, th)

\* a window matched against a store that holds a pattern of another length, a
\* pattern above the threshold in use and a pattern whose correlation equals
\* one of the thresholds
C28_Witness ==
    /\ FilterCalled
    /\ \E i \in 1..Len(last.windows) :
          LET r == last.windows[i]
          IN  /\ r.matches /= <<>>
              /\ \E j \in 1..Len(r.store) : Len(r.store[j].signal) /= Len(r.window)
              /\ \E j \in 1..Len(r.store) :
                    CorrelationIsOne(r.window, r.store[j].signal)

\* the stated weight of a match and the stated weighted sum of the matched
\* templates at sample j
Weights(matches) ==
    [i \in 1..Len(matches) |-> RMul(matches[i].correlation, matches[i].pattern.confidence)]

WeightedTemplates(matches, j) ==
    [i \in 1..Len(matches) |-> RMul(Weights(matches)[i], matches[i].pattern.signal[j])]

\* C29: the reconstruction of a window with at least one match is the average
\* of the matched templates weighted by correlation * confidence, and the raw
\* window when the total weight is zero
C29_WeightedAverage ==
    FilterCalled =>
        \A i \in 1..Len(last.windows) :
           LET r == last.windows[i]
               total == SumOver(Weights(r.matches))
           IN  r.matches /= <<>> =>
                  /\ RLess(R(0), total) =>
                        \A j \in 1..Len(r.window) :
                           r.filtered_window[j]
                              = RDiv(SumOver(WeightedTemplates(r.matches, j)), total)
                  /\ total = R(0) => r.filtered_window = r.window

\* a call with a window whose only match has weight zero and a window with two
\* matches of different weights and templates
C29_Witness ==
    /\ FilterReturned
    /\ \E i \in 1..Len(last.windows) :
          /\ last.windows[i].matches /= <<>>
          /\ SumOver(Weights(last.windows[i].matches)) = R(0)
          /\ last.windows[i].filtered_window = last.windows[i].window
    /\ \E i \in 1..Len(last.windows) :
          LET m == last.windows[i].matches
          IN  /\ Len(m) = 2
              /\ Weights(m)[1] /= Weights(m)[2]
              /\ m[1].pattern.signal /= m[2].pattern.signal
              /\ last.windows[i].filtered_window /= last.windows[i].window

\* a sequence of zero variance
IsConstant(x) == \A i, j \in 1..Len(x) : x[i] = x[j]

\* C30: a window or a template of zero variance is never a match and never
\* makes matching raise: a constant window is processed and has no match, no
\* match has a constant template, and every window of a constant signal is
\* learned as a new pattern
C30_ZeroVarianceNoMatch ==
    FilterCalled =>
        /\ \A i \in 1..Len(last.windows) :
              LET r == last.windows[i]
              IN  /\ IsConstant(r.window) => (r.matches = <<>> /\ r.learned)
                  /\ \A j \in 1..Len(r.matches) : ~IsConstant(r.matches[j].pattern.signal)
        /\ (ValidateSignal(last.signal) /\ IsConstant(last.signal.data)
               /\ ~ExtractWindows(last.signal.data, parameters).err)
              => /\ Len(last.windows) = Len(ExtractWindows(last.signal.data, parameters).windows)
                 /\ Len(last.learned) = Len(last.windows)
                 /\ \A i \in 1..Len(last.windows) : last.windows[i].learned

\* a returned call on a constant signal of two windows, matched against a store
\* that holds a constant template of the windows' length
C30_Witness ==
    /\ FilterReturned
    /\ IsConstant(last.signal.data)
    /\ Len(last.windows) = 2
    /\ \A i \in 1..2 : last.windows[i].learned
    /\ \E j \in 1..Len(last.windows[1].store) :
          /\ IsConstant(last.windows[1].store[j].signal)
          /\ Len(last.windows[1].store[j].signal) = Len(last.windows[1].window)

LoopEnded == run.pc \in {"returned", "raised"}

\* the call ended as the one-step filter action ends it
LoopAgrees ==
    /\ run.pc = "returned" => last.result = "ok"
    /\ run.pc = "raised" => last.result = "error"

\* C23: every filter call terminates: window extraction yields a finite
\* sequence of windows (never more than the distance the range covers), and a
\* call that was entered returns an output or raises an error
C23_FilterTerminates ==
    /\ [](Len(run.windows) <= Abs(run.stop))
    /\ [](LoopEnded => LoopAgrees)
    /\ (LoopRunning ~> LoopEnded)

\* a call that returned after a loop of several windows
C23_Witness ==
    /\ run.pc = "returned"
    /\ Len(run.windows) >= 2
    /\ run.k = Len(run.windows)
    /\ Len(last.out) = Len(run.sig.data)

AtfReturned == atf.pc = "done"

\* what load_atf needs of a file: the signature, two integer counts on the
\* second line and the header lines that the first count promises
ValidAtfHeader(f) ==
    /\ f.exists
    /\ Len(f.lines) >= 2
    /\ f.lines[1].atf
    /\ Len(f.lines[2].tokens) >= 2
    /\ f.lines[2].tokens[1].int
    /\ f.lines[2].tokens[2].int
    /\ PyInt(f.lines[2].tokens[1].val) <= Len(f.lines)

\* the rows of the file after its header that hold exactly c numbers
StatedRows(f, h, c) ==
    LET after == SubSeq(f.lines, h + 1, Len(f.lines))
        good == SelectSeq(after, LAMBDA l : /\ Len(l.tokens) = c
                                            /\ \A j \in 1..Len(l.tokens) : l.tokens[j].float)
    IN  [r \in 1..Len(good) |-> [j \in 1..c |-> good[r].tokens[j].val]]

\* C24: load_atf never raises: it returns False for a file that is not a valid
\* ATF file and True only when the file was parsed (its counts read, its data
\* rows and its time and current columns taken from the file)
C24_LoadAtfNeverRaises ==
    /\ atf.pc /= "raised"
    /\ AtfReturned =>
          /\ ~ValidAtfHeader(atf.file) => ~atf.result
          /\ atf.result =>
                /\ ValidAtfHeader(atf.file)
                /\ atf.num_header_lines = PyInt(atf.file.lines[2].tokens[1].val)
                /\ atf.num_columns = PyInt(atf.file.lines[2].tokens[2].val)
                /\ atf.data = StatedRows(atf.file, atf.num_header_lines, atf.num_columns)
                /\ Len(atf.time_data) = Len(atf.data)
                /\ Len(atf.current_data) = Len(atf.data)
                /\ \A r \in 1..Len(atf.data) :
                      /\ atf.time_data[r] = atf.data[r][1]
                      /\ atf.current_data[r] = atf.data[r][2]

\* a file without the signature was refused
C24_Witness ==
    /\ AtfReturned
    /\ ~atf.result
    /\ atf.error = "ValueError"
    /\ atf.file.lines /= <<>>
    /\ ~atf.file.lines[1].atf

\* the windows of a call that cover the 1-based sample j of a signal of n
\* samples: the records whose slice [start : start + window_size] selects it
Covering(records, n, window_size, j) ==
    {k \in 1..Len(records) :
        j \in SlicePos(n, records[k].start, records[k].start + window_size)}

\* the values the windows reconstructed for sample j, one per covering window
Contributions(records, n, window_size, j) ==
    LET at(k) == records[k].filtered_window[j - SliceIdx(records[k].start, n)]
    IN  SelectSeq([k \in 1..Len(records) |->
                      IF k \in Covering(records, n, window_size, j)
                      THEN <<at(k)>> ELSE <<>>],
                  LAMBDA c : c /= <<>>)

ContributionSum(records, n, window_size, j) ==
    LET c == Contributions(records, n, window_size, j)
    IN  SumOver([k \in 1..Len(c) |-> c[k][1]])

RunRecords == run.st.windows

LearnedUpTo(k) == Cardinality({m \in 1..k : RunRecords[m].learned})

\* the store the k-th window left behind: the one its learn step produced, or
\* the one it was matched against
StoreAfterRecord(k) ==
    IF RunRecords[k].learned
    THEN run.st.learned[LearnedUpTo(k)].after
    ELSE RunRecords[k].store

\* a learn step of a window strictly between the i-th and the j-th evicted or
\* replaced the pattern stored under key
Displaced(key, i, j) ==
    \E m \in (i + 1)..(j - 1) :
       /\ RunRecords[m].learned
       /\ \/ run.st.learned[LearnedUpTo(m)].evicted = key
          \/ run.st.learned[LearnedUpTo(m)].key = key

C33_ValidSignalAccepted ==
    [][FilterStep =>
          /\ (ValidateSignal(last'.signal) /\ ValidParameters(parameters'))
                => last'.result = "ok"
          /\ last'.result = "error" => signal_patterns' = signal_patterns]_vars

\* a call of one of the read-only operations, the assignment of the caller into
\* the dictionary get_parameters returned, and a filter call that only ran
\* _find_matching_patterns on its windows: every window matched, none was learned
ReadOnlyCall ==
    /\ calls' = calls + 1
    /\ last'.op \in {"get_pattern_statistics", "get_parameters"}

ReturnedModified == last.op = "get_parameters" /\ last'.op = "modify_returned"

OnlyMatched ==
    /\ FilterStep
    /\ last'.windows /= <<>>
    /\ \A i \in 1..Len(last'.windows) : ~last'.windows[i].learned

\* C34: _find_matching_patterns, get_pattern_statistics and get_parameters
\* leave the store and the stored parameters unchanged, get_parameters returns
\* the stored parameters, and a change made to the dictionary it returned does
\* not reach them
C34_ReadOnlyOperations ==
    [][/\ (ReadOnlyCall \/ ReturnedModified) =>
              /\ signal_patterns' = signal_patterns
              /\ parameters' = parameters
              /\ patterns_file' = patterns_file
       /\ last'.op = "get_parameters" => last'.out.value = parameters
       /\ OnlyMatched =>
              /\ signal_patterns' = signal_patterns
              /\ parameters' = DictUpdate(parameters, last'.kwargs)]_vars

\* the caller changed a value in the dictionary it was handed, and the filter
\* on a non-empty store still has the value it had
C34_Witness ==
    /\ last.op = "modify_returned"
    /\ signal_patterns /= <<>>
    /\ last.kwargs = [window_size |-> 2]
    /\ last.out.value["window_size"] = 2
    /\ parameters["window_size"] = 1000

\* filter(sig, **kwargs) as a function of the store and the parameters the
\* filter holds: how the call ends, the output it returns and the store, the
\* parameters and the file it leaves
FilterWith(store, params, sig, kwargs) ==
    LET p == DictUpdate(params, kwargs)
        w == ExtractWindows(sig.data, p)
        st == ProcessSignal(store, sig, w.windows, p)
    IN  IF ~ValidateSignal(sig)
        THEN [result |-> "error", out |-> <<>>, store |-> store, parameters |-> params,
              file |-> patterns_file, windows |-> <<>>]
        ELSE IF w.err
        THEN [result |-> "error", out |-> <<>>, store |-> store, parameters |-> p,
              file |-> patterns_file, windows |-> <<>>]
        ELSE IF st.err \/ ~writable
        THEN [result |-> "error", out |-> <<>>, store |-> st.store, parameters |-> p,
              file |-> patterns_file, windows |-> st.windows]
        ELSE [result |-> "ok", out |-> st.sum, store |-> st.store, parameters |-> p,
              file |-> SavePatterns(st.store), windows |-> st.windows]

\* learning rates passed to filter, as the main window passes its setting
LearningRates == {R(0), <<9, 10>>, R(1)}

WithLearningRate(kwargs, lr) ==
    [k \in DOMAIN kwargs \cup {"learning_rate"} |->
        IF k = "learning_rate" THEN lr ELSE kwargs[k]]

\* what a caller sees of a filter call apart from the learning rate it left in
\* the parameters
Observed(f) ==
    [result |-> f.result, out |-> f.out, store |-> f.store, file |-> f.file,
     parameters |-> [k \in DOMAIN f.parameters \ {"learning_rate"} |-> f.parameters[k]]]

\* a filter that was constructed and has not been called
BeforeCall == alive /\ run.pc = "idle"

\* C35: two filter calls from equal stores whose parameters differ only in
\* learning_rate end alike, return equal outputs and leave equal stores
C35_LearningRateNoInfluence ==
    BeforeCall =>
        \A sig \in LoopSignals, kwargs \in KwargsSet, lr \in LearningRates :
           Observed(FilterWith(signal_patterns, parameters, sig,
                               WithLearningRate(kwargs, lr)))
              = Observed(FilterWith(signal_patterns, parameters, sig, kwargs))

\* from a store of several patterns, a call given a learning rate other than the
\* stored one returns an output that differs from its input, after it matched a
\* window and learned another
C35_Witness ==
    /\ BeforeCall
    /\ Len(signal_patterns) >= 2
    /\ \E sig \in LoopSignals, kwargs \in KwargsSet :
          LET f == FilterWith(signal_patterns, parameters, sig,
                              WithLearningRate(kwargs, <<9, 10>>))
          IN  /\ f.result = "ok"
              /\ f.parameters["learning_rate"] /= parameters["learning_rate"]
              /\ f.out /= sig.data
              /\ f.store /= signal_patterns
              /\ \E i \in 1..Len(f.windows) : f.windows[i].learned
              /\ \E i \in 1..Len(f.windows) : ~f.windows[i].learned

\* a store as _learn_new_pattern alone leaves it: every pattern with confidence
\* 0.5, count 1 and last_updated 0
AsLearned(store) ==
    \A i \in 1..Len(store) :
       /\ store[i].confidence = <<1, 2>>
       /\ store[i].count = 1
       /\ store[i].last_updated = 0

\* a pattern file from which such a store is loaded, or none
AsLearnedFile(file) ==
    file.kind = "json" =>
        LET l == LoadPatterns(<<>>, file)
        IN  ~l.err /\ AsLearned(l.store)

\* C36: a filter constructed on an empty directory starts with an empty store,
\* and a store in which every pattern has confidence 0.5, observation_count 1
\* and staleness 0 stays so through every step other than update_pattern that
\* changes the store or the file, with total_observations equal to
\* total_patterns
C36_FilterLearnsOnly ==
    /\ []((last.op = "init" /\ patterns_file = AbsentFile) => signal_patterns = <<>>)
    /\ [][(/\ ~UpdateStep
            /\ <<signal_patterns, patterns_file>>' /= <<signal_patterns, patterns_file>>
            /\ AsLearned(signal_patterns)
            /\ AsLearnedFile(patterns_file))
             => /\ AsLearned(signal_patterns')
                /\ AsLearnedFile(patterns_file')
                /\ LET s == GetPatternStatistics(signal_patterns')
                   IN  s.total_observations = s.total_patterns]_vars

\* a call that started from an empty store, learned from one window, matched
\* another against what it had learned and saved
C36_Witness ==
    /\ FilterReturned
    /\ last.windows /= <<>>
    /\ last.windows[1].store = <<>>
    /\ \E i \in 1..Len(last.windows) : last.windows[i].matches /= <<>>
    /\ signal_patterns /= <<>>
    /\ AsLearned(signal_patterns)
    /\ patterns_file = SavePatterns(signal_patterns)
    /\ GetPatternStatistics(signal_patterns).total_observations = Len(signal_patterns)

\* a filter call that raised because of its keyword arguments: the same call
\* without them would have returned
RaisedByKwargs ==
    /\ FilterStep
    /\ last'.result = "error"
    /\ FilterWith(signal_patterns, parameters, last'.signal, <<>>).result = "ok"

\* C37: a filter call that raises because of the parameter values passed as
\* keyword arguments leaves the stored parameters as they were, so the same
\* call without keyword arguments still ends as it would have before
C37_FailedCallKeepsParameters ==
    [][RaisedByKwargs =>
          /\ parameters' = parameters
          /\ FilterWith(signal_patterns', parameters', last'.signal, <<>>).result = "ok"]_vars

\* update_pattern changed the pattern stored under its key
PatternUpdated ==
    /\ UpdateStep
    /\ last'.result = "ok"
    /\ HasKey(signal_patterns, last'.kwargs.pattern_id)

\* C38: a change made by update_pattern is persisted: an instance constructed
\* right after it on the same directory loads the updated template, confidence
\* and observation_count
C38_UpdatePersisted ==
    [][PatternUpdated =>
          LET l == LoadPatterns(<<>>, patterns_file')
              k == last'.kwargs.pattern_id
          IN  /\ ~l.err
              /\ HasKey(l.store, k)
              /\ Lookup(l.store, k).signal = Lookup(signal_patterns', k).signal
              /\ Lookup(l.store, k).confidence = Lookup(signal_patterns', k).confidence
              /\ Lookup(l.store, k).count = Lookup(signal_patterns', k).count]_vars

(***************************************************************************)
(* Config: construction, set and add_recent_file                           *)
(***************************************************************************)
ConfigFrame ==
    UNCHANGED <<alive, signal_patterns, parameters, patterns_file, writable, assigned,
                last, calls, peer, run, atf>>

\* Config(): load_config reads config.json when it exists
ConfigConstruct ==
    /\ config' = [config EXCEPT !.alive = TRUE, !.io = LoadConfig(config.file),
                                !.op = "init", !.added = "none"]
    /\ ConfigFrame

\* set('io.max_recent', value): the value is stored, nothing is saved
ConfigSet ==
    /\ config.alive
    /\ \E v \in MaxRecentSettings :
          config' = [config EXCEPT !.io.max_recent = v, !.op = "set"]
    /\ ConfigFrame

\* add_recent_file(filepath), then save_config, which writes the file or, when
\* open() or json.dump raises, reports the error and leaves it
AddRecentFile ==
    /\ config.alive
    /\ \E filepath \in RecentPaths, saved \in BOOLEAN :
          LET io == [config.io EXCEPT !.recent_files =
                        AddedToRecent(config.io.recent_files, config.io.max_recent,
                                      filepath)]
          IN  config' = [config EXCEPT !.io = io,
                                       !.file = IF saved THEN DumpConfig(io) ELSE @,
                                       !.op = "add_recent_file", !.added = filepath]
    /\ ConfigFrame

NextConfig == ConfigConstruct \/ ConfigSet \/ AddRecentFile

SpecConfig == Init /\ [][NextConfig]_vars

\* the recent-files list and the operation just made
RecentFiles == config.io.recent_files

JustAdded == config.op = "add_recent_file"

NoDuplicates(s) == \A i, j \in 1..Len(s) : s[i] = s[j] => i = j

====
